---------------------------- MODULE Spec2Model ----------------------------
(***************************************************************************)
(* Model of app.py: the Oracle Object Storage file-transfer command line.  *)
(*                                                                         *)
(* Strings are sequences of one-character strings, local paths are         *)
(* sequences of components (each component a string), file contents are    *)
(* sequences of bytes.  One process invocation of main() is one action for *)
(* upload-file, list and download; an upload-dir invocation is one action  *)
(* up to the directory enumeration, then one action per system-call group  *)
(* of the loop body, so that other processes (the Env actions) can change  *)
(* the local filesystem between them.  The bucket and the local filesystem *)
(* persist from one invocation to the next.                                *)
(***************************************************************************)
EXTENDS Integers, Sequences, FiniteSets, TLC

VARIABLES
    platform,   \* "posix" or "nt": fixes os.sep and the legal file names
    fs,         \* local filesystem: path -> [kind, data, access]
    bucket,     \* the remote bucket: object name -> content
    sent,       \* history: object name -> what was last uploaded under it
    pc,         \* "idle" or the position inside upload_directory's loop
    dir,        \* locals of the running upload_directory call
    stats,      \* the statistics dict of upload_directory (NoStats outside)
    startup,    \* the credentials main() was given and resolved, until it dispatches
    last,       \* what the latest invocation of main() was given and did
    hist,       \* history of the running upload_directory call
    runs,       \* number of invocations of main() so far
    envSteps    \* number of filesystem changes by other processes so far

vars == <<platform, fs, bucket, sent, pc, dir, stats, startup, last, hist, runs,
          envSteps>>

\* Python's None, as a value that is no string of characters.
None == <<"None">>

\* Number of invocations of main() in one behaviour.
MaxRuns == 2

\* Number of changes other processes make to the local filesystem.
MaxEnvSteps == 1

-----------------------------------------------------------------------------
(* Strings *)

EmptyStr == << >>
SLASH == "/"
BACKSLASH == "\\"

\* str.lstrip(ch): drop every leading occurrence of ch.
RECURSIVE LStrip(_, _)
LStrip(s, ch) ==
    IF s # << >> /\ Head(s) = ch THEN LStrip(Tail(s), ch) ELSE s

\* str.replace(old, new) for one-character old and new.
Replace(s, old, new) ==
    [i \in 1..Len(s) |-> IF s[i] = old THEN new ELSE s[i]]

\* sep.join(parts)
RECURSIVE Join(_, _)
Join(parts, sep) ==
    IF parts = << >> THEN << >>
    ELSE IF Len(parts) = 1 THEN parts[1]
    ELSE parts[1] \o <<sep>> \o Join(Tail(parts), sep)

\* str.startswith
StartsWith(s, p) == Len(p) <= Len(s) /\ SubSeq(s, 1, Len(p)) = p

\* Python truthiness of an optional string: None and '' are falsy.
Truthy(v) == v # None /\ v # EmptyStr

\* `a or b` with the operands the wrong way round.
PyOrSecondFirst(a, b) == IF Truthy(b) THEN b ELSE a

\* Python's `a or b` on optional strings.
PyOr(a, b) == IF Truthy(a) THEN a ELSE b

-----------------------------------------------------------------------------
(* Local paths and the local filesystem *)

\* os.sep of the platform.
Sep == IF platform = "nt" THEN BACKSLASH ELSE SLASH

\* The components used below.
cU == <<"u">>
cA == <<"a">>
cD == <<"d">>
cDbA == <<"d", BACKSLASH, "a">>
cN == <<"n">>
cT == <<"t">>

U == <<cU>>                \* u        the directory of files to upload
UD == <<cU, cD>>           \* u/d      a subdirectory
UDA == <<cU, cD, cA>>      \* u/d/a    a file in the subdirectory
UDbA == <<cU, cDbA>>       \* u/d\a    a file whose name holds a backslash (posix only)
N == <<cN>>                \* n        a directory that does not exist at first
NT == <<cN, cT>>           \* n/t      a download target under it
UDAT == <<cU, cD, cA, cT>> \* u/d/a/t  a download target whose parent is a file

Paths == {U, UD, UDA, UDbA, N, NT, UDAT}

\* File contents: sequences of bytes.
Contents == {<<1>>, <<1, 2>>}

Absent == [kind |-> "none", data |-> << >>, access |-> TRUE]
Directory == [kind |-> "dir", data |-> << >>, access |-> TRUE]
File(c) == [kind |-> "file", data |-> c, access |-> TRUE]

\* str(path)
PathStr(p) == Join(p, Sep)

\* Path.name
Name(p) == p[Len(p)]

\* Path.relative_to(root), for a path under root
RelativeTo(p, root) == SubSeq(p, Len(root) + 1, Len(p))

IsUnder(p, root) == Len(p) > Len(root) /\ SubSeq(p, 1, Len(root)) = root

\* The proper ancestors of p.
Ancestors(p) == {SubSeq(p, 1, k) : k \in 1..(Len(p) - 1)}

\* Path.exists(), Path.is_file(), Path.is_dir(), Path.stat().st_size
Exists(f, p) == f[p].kind # "none"
IsFile(f, p) == f[p].kind = "file"
IsDir(f, p) == f[p].kind = "dir"
StSize(f, p) == Len(f[p].data)


-----------------------------------------------------------------------------
(* OracleObjectStorageUploader: the operations, as functions of the local  *)
(* filesystem f, the bucket b, their arguments and the remote outcome.     *)

NoException == "none"

\* A put that keeps an object that is already there.
PutKeepsExisting(b, k, c) == b @@ (k :> c)

\* b with content c put under object name k (put_object overwrites).
Put(b, k, c) == (k :> c) @@ b

\* upload_file without its exists() check: open() raises on a missing path.
UploadFileNoExistsCheck(f, b, local_path, object_name, putFails) ==
    LET failed == [ret |-> FALSE, raised |-> NoException, bucket |-> b,
                   calls |-> {}, name |-> None]
        name == PyOr(object_name, Name(local_path)) IN
    IF IsDir(f, local_path) THEN failed
    ELSE IF ~Exists(f, local_path)
    THEN [failed EXCEPT !.raised = "FileNotFoundError", !.name = name]
    ELSE IF ~f[local_path].access
    THEN [failed EXCEPT !.raised = "PermissionError", !.name = name]
    ELSE IF putFails
    THEN [failed EXCEPT !.calls = {"put_object"}, !.name = name]
    ELSE [ret |-> TRUE, raised |-> NoException,
          bucket |-> Put(b, name, f[local_path].data),
          calls |-> {"put_object"}, name |-> name]

\* upload_file(local_file_path, object_name).  putFails: put_object raises OciError.
UploadFile(f, b, local_path, object_name, putFails) ==
    LET failed == [ret |-> FALSE, raised |-> NoException, bucket |-> b,
                   calls |-> {}, name |-> None] IN
    IF ~Exists(f, local_path) THEN failed
    ELSE IF ~IsFile(f, local_path) THEN failed
    ELSE LET name == PyOr(object_name, Name(local_path)) IN
         IF ~f[local_path].access
         THEN [failed EXCEPT !.raised = "PermissionError", !.name = name]
         ELSE IF putFails
         THEN [failed EXCEPT !.calls = {"put_object"}, !.name = name]
         ELSE [ret |-> TRUE, raised |-> NoException,
               bucket |-> Put(b, name, f[local_path].data),
               calls |-> {"put_object"}, name |-> name]

\* Path(local_file_path).parent.mkdir(parents=True, exist_ok=True)
MkdirParents(f, target) ==
    [p \in Paths |-> IF p \in Ancestors(target) /\ f[p].kind = "none"
                     THEN Directory ELSE f[p]]

\* download_file(object_name, local_file_path).  getFails: get_object raises OciError.
DownloadFile(f, b, object_name, target, getFails) ==
    LET base == [ret |-> FALSE, raised |-> NoException, fs |-> f,
                 calls |-> {"get_object"}] IN
    IF getFails \/ object_name \notin DOMAIN b THEN base
    ELSE IF \E a \in Ancestors(target) : f[a].kind = "file"
    THEN [base EXCEPT !.raised = "FileExistsError"]
    ELSE LET f1 == MkdirParents(f, target) IN
         IF f1[target].kind = "dir"
         THEN [base EXCEPT !.raised = "IsADirectoryError", !.fs = f1]
         ELSE IF f1[target].kind = "file" /\ ~f1[target].access
         THEN [base EXCEPT !.raised = "PermissionError", !.fs = f1]
         ELSE [base EXCEPT !.ret = TRUE,
                           !.fs = [f1 EXCEPT ![target] =
                                      [kind |-> "file", data |-> b[object_name],
                                       access |-> TRUE]]]

\* list_objects(object_prefix).  listFails: list_objects raises OciError.
ListObjects(b, object_prefix, listFails) ==
    IF listFails
    THEN [ok |-> FALSE, listed |-> {}, calls |-> {"list_objects"}]
    ELSE [ok |-> TRUE,
          listed |-> {k \in DOMAIN b :
                        ~Truthy(object_prefix) \/ StartsWith(k, object_prefix)},
          calls |-> {"list_objects"}]

\* The object name upload_directory gives the file at relative path rel.
ObjectName(object_prefix, rel) ==
    Replace(LStrip(object_prefix \o <<SLASH>> \o PathStr(rel), SLASH),
            BACKSLASH, SLASH)

\* __init__: conn is what the configuration and the service answer.
Construct(namespace, bucket_name, conn) ==
    IF conn = "config_error"
    THEN [ok |-> FALSE, net |-> {}]
    ELSE IF conn = "connect_error"
    THEN [ok |-> FALSE, net |-> {"client", "get_bucket"}]
    ELSE [ok |-> TRUE, net |-> {"client", "get_bucket"}]


-----------------------------------------------------------------------------
(* main(): inputs *)

\* A --local-path that was not given (None and '' are both falsy).
NoPath == << >>

NsFlags == {None, EmptyStr, <<"x">>}     \* --namespace
NsEnvs == {None, <<"y">>}                \* OCI_NAMESPACE
BucketFlags == {None, <<"b">>}           \* --bucket
BucketEnvs == {None, <<"c">>}            \* OCI_BUCKET_NAME
Creds == [nsFlag : NsFlags, nsEnv : NsEnvs, bFlag : BucketFlags, bEnv : BucketEnvs]
Conns == {"ok", "config_error", "connect_error"}

UploadFilePaths == {NoPath, UDA, UDbA, U, NT}
UploadDirPaths == {NoPath, U, UDA, N}
DownloadPaths == {NoPath, NT, UDA, U, UDAT}
ObjectNames == {None, <<"k">>}
Prefixes == {EmptyStr, <<"p">>, <<BACKSLASH, "p">>}
ListPrefixes == {EmptyStr, <<"k">>}

\* The two enumeration orders of the model; glob's order is the filesystem's.
PathOrder == <<UD, UDA, UDbA, NT, UDAT>>
Reverse(q) == [i \in 1..Len(q) |-> q[Len(q) + 1 - i]]
Orders == {PathOrder, Reverse(PathOrder)}

\* list(local_dir.glob('**/*')): every existing path below root.
RECURSIVE Filter(_, _)
Filter(q, S) ==
    IF q = << >> THEN << >>
    ELSE IF Head(q) \in S THEN <<Head(q)>> \o Filter(Tail(q), S)
    ELSE Filter(Tail(q), S)
Glob(f, root, order) ==
    Filter(order, {p \in Paths : IsUnder(p, root) /\ Exists(f, p)})

-----------------------------------------------------------------------------
(* State outside the operations *)

NoStats == [success_count |-> 0, failed_count |-> 0, total_size |-> 0,
            files |-> << >>, present |-> FALSE]
NewStats == [NoStats EXCEPT !.present = TRUE]

NoDir == [root |-> NoPath, object_prefix |-> EmptyStr, files |-> << >>,
          idx |-> 0, object_name |-> None]

\* History of one upload_directory call: the regular files below the root when
\* it enumerated them, the paths it passed to upload_file, those uploaded, the
\* number that failed, the number that did not exist when passed, and whether
\* another process changed a file meanwhile.
NoHist == [regular |-> {}, attempts |-> << >>, uploaded |-> << >>,
           failures |-> 0, missing |-> 0, env |-> FALSE]

\* The credentials of an invocation and what main() resolved them to.
Credentials(cred) ==
    [nsFlag |-> cred.nsFlag, nsEnv |-> cred.nsEnv, bFlag |-> cred.bFlag,
     bEnv |-> cred.bEnv, namespace |-> None, bucket_name |-> None]

NoStartup == Credentials([nsFlag |-> None, nsEnv |-> None, bFlag |-> None,
                          bEnv |-> None])

\* An invocation before it did anything: exit code 1 until it succeeds.
NoRun ==
    [action |-> "none", local_path |-> NoPath, object_name |-> None,
     object_prefix |-> EmptyStr, net |-> {}, constructed |-> FALSE,
     dispatched |-> FALSE, exit |-> 1, ok |-> FALSE, raisedIn |-> "none",
     raised |-> NoException, listed |-> {}]

\* The arguments of the action main() dispatches.
Given(action, local_path, object_name, object_prefix) ==
    [last EXCEPT !.action = action, !.local_path = local_path,
                 !.object_name = object_name, !.object_prefix = object_prefix]

\* The upload history: under each object name the content last uploaded, and
\* whether that upload replaced a different content.
Recorded(h, local_path, object_name, content) ==
    LET k == IF object_name \in {None, EmptyStr} THEN local_path[Len(local_path)]
             ELSE object_name IN
    (k :> [data |-> content,
           replaced |-> k \in DOMAIN h /\ h[k].data # content]) @@ h

-----------------------------------------------------------------------------
(* Initial state: a directory u of files to upload; the bucket is empty or *)
(* holds one object uploaded earlier.                                     *)

Init ==
    /\ platform \in {"posix", "nt"}
    /\ fs = [p \in Paths |->
               CASE p \in {U, UD} -> Directory
                 [] p = UDA -> File(<<1, 2>>)
                 [] p = UDbA /\ platform = "posix" -> File(<<1>>)
                 [] OTHER -> Absent]
    /\ bucket \in {<< >>, <<"k">> :> <<1, 2>>}
    /\ sent = [k \in DOMAIN bucket |-> [data |-> bucket[k], replaced |-> FALSE]]
    /\ pc = "idle"
    /\ dir = NoDir
    /\ stats = NoStats
    /\ startup = NoStartup
    /\ last = NoRun
    /\ hist = NoHist
    /\ runs = 0
    /\ envSteps = 0

-----------------------------------------------------------------------------
(* main(), in two steps: the start, down to the constructed uploader, then *)
(* the action.  upload-dir is dispatched down to the enumeration.          *)

\* The process ends: nothing of upload_directory is running.
Exit(o) ==
    /\ last' = o
    /\ pc' = "idle"
    /\ dir' = NoDir

\* namespace and bucket name from the flag or the environment, then the uploader.
MainStart ==
    /\ pc = "idle"
    /\ runs < MaxRuns
    /\ runs' = runs + 1
    /\ \E cred \in Creds :
         LET namespace == PyOr(cred.nsFlag, cred.nsEnv)
             bucket_name == PyOr(cred.bFlag, cred.bEnv)
         IN
         IF ~Truthy(namespace)
         THEN /\ startup' = [Credentials(cred) EXCEPT !.namespace = namespace]
              /\ Exit(NoRun)
         ELSE IF ~Truthy(bucket_name)
         THEN /\ startup' = [Credentials(cred) EXCEPT !.namespace = namespace,
                                                      !.bucket_name = bucket_name]
              /\ Exit(NoRun)
         ELSE \E conn \in Conns :
                LET c == Construct(namespace, bucket_name, conn) IN
                /\ startup' = [Credentials(cred) EXCEPT
                                  !.namespace = namespace,
                                  !.bucket_name = bucket_name]
                /\ last' = [NoRun EXCEPT !.net = c.net, !.constructed = c.ok,
                                         !.raisedIn = IF c.ok THEN "none"
                                                      ELSE "__init__",
                                         !.raised = IF c.ok THEN NoException
                                                    ELSE "OciError"]
                /\ pc' = IF c.ok THEN "main" ELSE "idle"
                /\ dir' = NoDir
    /\ stats' = NoStats
    /\ hist' = NoHist
    /\ UNCHANGED <<platform, fs, bucket, sent, envSteps>>

\* main() dispatches: the start of the process is behind it.
Dispatch ==
    /\ pc = "main"
    /\ startup' = NoStartup

MainUploadFile ==
    /\ Dispatch
    /\ \E local_path \in UploadFilePaths, object_name \in ObjectNames,
          putFails \in BOOLEAN :
         LET o == Given("upload-file", local_path, object_name, EmptyStr)
             r == UploadFile(fs, bucket, local_path, object_name, putFails)
         IN
         IF local_path = NoPath
         THEN Exit(o) /\ UNCHANGED <<bucket, sent>>
         ELSE /\ Exit([o EXCEPT !.dispatched = TRUE,
                                !.net = @ \cup r.calls,
                                !.ok = r.ret,
                                !.exit = IF r.ret THEN 0 ELSE 1,
                                !.raisedIn = IF r.raised # NoException
                                             THEN "upload_file" ELSE "none",
                                !.raised = r.raised])
              /\ bucket' = r.bucket
              /\ sent' = IF r.ret
                         THEN Recorded(sent, local_path, object_name,
                                       fs[local_path].data)
                         ELSE sent
    /\ UNCHANGED <<platform, fs, stats, hist, runs, envSteps>>

MainList ==
    /\ Dispatch
    /\ \E object_prefix \in ListPrefixes, listFails \in BOOLEAN :
         LET o == Given("list", NoPath, None, object_prefix)
             r == ListObjects(bucket, object_prefix, listFails)
         IN
         Exit([o EXCEPT !.dispatched = TRUE,
                        !.net = @ \cup r.calls,
                        !.ok = r.ok,
                        !.listed = r.listed,
                        !.exit = 0])
    /\ UNCHANGED <<platform, fs, bucket, sent, stats, hist, runs, envSteps>>

MainDownload ==
    /\ Dispatch
    /\ \E local_path \in DownloadPaths, object_name \in ObjectNames,
          getFails \in BOOLEAN :
         LET o == Given("download", local_path, object_name, EmptyStr)
             r == DownloadFile(fs, bucket, object_name, local_path, getFails)
         IN
         IF ~Truthy(object_name) \/ local_path = NoPath
         THEN Exit(o) /\ UNCHANGED fs
         ELSE /\ Exit([o EXCEPT !.dispatched = TRUE,
                                !.net = @ \cup r.calls,
                                !.ok = r.ret,
                                !.exit = IF r.ret THEN 0 ELSE 1,
                                !.raisedIn = IF r.raised # NoException
                                             THEN "download_file" ELSE "none",
                                !.raised = r.raised])
              /\ fs' = r.fs
    /\ UNCHANGED <<platform, bucket, sent, stats, hist, runs, envSteps>>

\* upload-dir: main() and upload_directory down to the enumeration of the files.
\* A root that is missing or no directory makes upload_directory return None,
\* and main()'s stats['success_count'] then raises TypeError, which it catches.
MainUploadDir ==
    /\ Dispatch
    /\ \E local_path \in UploadDirPaths, object_prefix \in Prefixes,
          order \in Orders :
         LET o == Given("upload-dir", local_path, None, object_prefix) IN
         IF local_path = NoPath
         THEN Exit(o) /\ UNCHANGED <<stats, hist>>
         ELSE IF ~Exists(fs, local_path) \/ ~IsDir(fs, local_path)
         THEN /\ Exit([o EXCEPT !.dispatched = TRUE, !.raisedIn = "main",
                                !.raised = "TypeError"])
              /\ UNCHANGED <<stats, hist>>
         ELSE /\ last' = [o EXCEPT !.dispatched = TRUE]
              /\ pc' = "dir_isfile"
              /\ dir' = [root |-> local_path, object_prefix |-> object_prefix,
                         files |-> Glob(fs, local_path, order), idx |-> 1,
                         object_name |-> None]
              /\ stats' = NewStats
              /\ hist' = [NoHist EXCEPT !.regular =
                            {p \in Paths : IsUnder(p, local_path)
                                           /\ IsFile(fs, p)}]
    /\ UNCHANGED <<platform, fs, bucket, sent, runs, envSteps>>

-----------------------------------------------------------------------------
(* upload_directory: the loop over the enumerated paths *)

file_path == dir.files[dir.idx]

\* An exception leaves upload_directory and main() catches it: exit code 1.
Abort(where, what) ==
    Exit([last EXCEPT !.raisedIn = where, !.raised = what])

NextFile == dir' = [dir EXCEPT !.idx = @ + 1, !.object_name = None]

\* `if file_path.is_file():` and the object name of the file.
DirIsFile ==
    /\ pc = "dir_isfile"
    /\ dir.idx <= Len(dir.files)
    /\ IF IsFile(fs, file_path)
       THEN /\ dir' = [dir EXCEPT !.object_name =
                          ObjectName(dir.object_prefix,
                                     RelativeTo(file_path, dir.root))]
            /\ pc' = "dir_upload"
       ELSE NextFile /\ pc' = "dir_isfile"
    /\ UNCHANGED <<platform, fs, bucket, sent, stats, startup, last, hist, runs,
                   envSteps>>

\* `if self.upload_file(str(file_path), object_name):` and its else branch.
DirUpload ==
    /\ pc = "dir_upload"
    /\ \E putFails \in BOOLEAN :
         LET r == UploadFile(fs, bucket, file_path, dir.object_name, putFails)
             h == [hist EXCEPT !.attempts = Append(@, file_path),
                               !.missing = IF Exists(fs, file_path) THEN @
                                           ELSE @ + 1]
         IN
         /\ bucket' = r.bucket
         /\ IF r.raised # NoException
            THEN /\ Exit([last EXCEPT !.raisedIn = "upload_file",
                                      !.raised = r.raised,
                                      !.net = @ \cup r.calls])
                 /\ UNCHANGED <<stats, sent>>
                 /\ hist' = h
            ELSE /\ last' = [last EXCEPT !.net = @ \cup r.calls]
                 /\ IF r.ret
                    THEN /\ pc' = "dir_stat1"
                         /\ dir' = dir
                         /\ stats' = stats
                         /\ sent' = Recorded(sent, file_path, dir.object_name,
                                             fs[file_path].data)
                         /\ hist' = [h EXCEPT !.uploaded = Append(@, file_path)]
                    ELSE /\ pc' = "dir_isfile"
                         /\ NextFile
                         /\ stats' = [stats EXCEPT !.failed_count = @ + 1]
                         /\ sent' = sent
                         /\ hist' = [h EXCEPT !.failures = @ + 1]
    /\ UNCHANGED <<platform, fs, startup, runs, envSteps>>

\* stats['success_count'] += 1; stats['total_size'] += file_path.stat().st_size
DirStat1 ==
    /\ pc = "dir_stat1"
    /\ IF Exists(fs, file_path)
       THEN /\ stats' = [stats EXCEPT !.success_count = @ + 1,
                                      !.total_size = @ + StSize(fs, file_path)]
            /\ pc' = "dir_stat2"
            /\ UNCHANGED <<dir, last>>
       ELSE /\ stats' = [stats EXCEPT !.success_count = @ + 1]
            /\ Abort("upload_directory", "FileNotFoundError")
    /\ UNCHANGED <<platform, fs, bucket, sent, startup, hist, runs, envSteps>>

\* stats['files'].append({... 'size': file_path.stat().st_size})
DirStat2 ==
    /\ pc = "dir_stat2"
    /\ IF Exists(fs, file_path)
       THEN /\ stats' = [stats EXCEPT !.files =
                            Append(@, [local_path |-> file_path,
                                       object_name |-> dir.object_name,
                                       size |-> StSize(fs, file_path)])]
            /\ pc' = "dir_isfile"
            /\ NextFile
            /\ last' = last
       ELSE /\ stats' = stats
            /\ Abort("upload_directory", "FileNotFoundError")
    /\ UNCHANGED <<platform, fs, bucket, sent, startup, hist, runs, envSteps>>

\* `return stats`, then main() reports them and exits.
DirFinish ==
    /\ pc = "dir_isfile"
    /\ dir.idx > Len(dir.files)
    /\ Exit([last EXCEPT !.ok = (stats.failed_count = 0),
                         !.exit = IF stats.failed_count = 0 THEN 0 ELSE 1])
    /\ UNCHANGED <<platform, fs, bucket, sent, stats, startup, hist, runs,
                   envSteps>>

-----------------------------------------------------------------------------
(* Other processes change the local files the program reads. *)

\* A change after the last process of the behaviour has ended is seen by none.
EnvStep ==
    /\ envSteps < MaxEnvSteps
    /\ pc # "idle" \/ runs < MaxRuns
    /\ envSteps' = envSteps + 1
    /\ hist' = IF pc \in {"idle", "main"} THEN hist
                ELSE [hist EXCEPT !.env = TRUE]
    /\ UNCHANGED <<platform, bucket, sent, pc, dir, stats, startup, last, runs>>

EnvRemove ==
    /\ EnvStep
    /\ \E p \in Paths : IsFile(fs, p) /\ fs' = [fs EXCEPT ![p] = Absent]

EnvWrite ==
    /\ EnvStep
    /\ \E p \in Paths, c \in Contents :
         IsFile(fs, p) /\ fs[p].data # c /\ fs' = [fs EXCEPT ![p].data = c]

EnvChmod ==
    /\ EnvStep
    /\ \E p \in Paths :
         IsFile(fs, p) /\ fs[p].access /\ fs' = [fs EXCEPT ![p].access = FALSE]

-----------------------------------------------------------------------------

Next ==
    \/ MainStart
    \/ MainUploadFile
    \/ MainList
    \/ MainDownload
    \/ MainUploadDir
    \/ DirIsFile
    \/ DirUpload
    \/ DirStat1
    \/ DirStat2
    \/ DirFinish
    \/ EnvRemove
    \/ EnvWrite
    \/ EnvChmod

Spec == Init /\ [][Next]_vars

\* upload-file and download only: the transfers of single files.
NextTransfer ==
    \/ MainStart
    \/ MainUploadFile
    \/ MainDownload
    \/ EnvRemove
    \/ EnvWrite
    \/ EnvChmod

SpecTransfer == Init /\ [][NextTransfer]_vars

\* The uploads only: upload-file and upload-dir.
NextUpload ==
    \/ MainStart
    \/ MainUploadFile
    \/ MainUploadDir
    \/ DirIsFile
    \/ DirUpload
    \/ DirStat1
    \/ DirStat2
    \/ DirFinish
    \/ EnvRemove
    \/ EnvWrite
    \/ EnvChmod

SpecUpload == Init /\ [][NextUpload]_vars


-----------------------------------------------------------------------------
(* Properties *)

RECURSIVE SumSizes(_)
SumSizes(files) ==
    IF files = << >> THEN 0 ELSE Head(files).size + SumSizes(Tail(files))

Count(q, x) == Cardinality({i \in 1..Len(q) : q[i] = x})

\* A flag the action needs was not given.
MissingFlag ==
    \/ last.action \in {"upload-file", "upload-dir"} /\ last.local_path = NoPath
    \/ last.action = "download"
       /\ (last.object_name \in {None, EmptyStr} \/ last.local_path = NoPath)

\* upload_directory ran and returned its statistics.
DirReturned ==
    /\ stats.present
    /\ pc = "idle"
    /\ last.raisedIn = "none"

\* C1: at every call of upload_file by upload_directory the object name is
\* prefix + "/" + relative path with every backslash turned into a slash and
\* the leading slashes dropped, and it does not begin with a slash.
C1_ObjectNameIsPrefixSlashRelative ==
    pc = "dir_upload" =>
        LET rel == PathStr(RelativeTo(file_path, dir.root))
            joined == dir.object_prefix \o <<SLASH>> \o rel
            expected == LStrip(Replace(joined, BACKSLASH, SLASH), SLASH)
        IN /\ dir.object_name = expected
           /\ dir.object_name # << >>
           /\ Head(dir.object_name) # SLASH

\* C2: when the process of an upload-dir over a directory has ended and no
\* other process touched the files meanwhile, upload_directory has returned
\* its statistics, has passed every regular file exactly once to upload_file,
\* and success_count + failed_count is the number of regular files with
\* failed_count the number of failed uploads.
C2_EveryFileAttemptedOnce ==
    (stats.present /\ pc = "idle" /\ ~hist.env) =>
        /\ last.raisedIn = "none"
        /\ \A p \in hist.regular : Count(hist.attempts, p) = 1
        /\ stats.success_count + stats.failed_count = Cardinality(hist.regular)
        /\ stats.failed_count = hist.failures

\* C3: a process that ended with a flag of its action missing has exit code 1
\* and has made no network call.
C3_MissingFlagNoNetworkCall ==
    (pc = "idle" /\ MissingFlag) => (last.exit = 1 /\ last.net = {})

\* C4: a process that has ended has exit code 0 exactly when its action
\* succeeded.
C4_ExitCodeZeroIffSucceeded ==
    (pc = "idle" /\ runs > 0) => (last.exit = 0 <=> last.ok)

\* C5: a download of object name K to path T that returns True leaves at T a
\* file holding the content most recently uploaded under K, below directories.
C5_DownloadYieldsLastUpload ==
    [][(pc = "main" /\ last'.action = "download" /\ last'.ok) =>
          LET K == last'.object_name
              T == last'.local_path
          IN /\ K \in DOMAIN sent
             /\ fs'[T].kind = "file"
             /\ fs'[T].data = sent[K].data
             /\ \A a \in Ancestors(T) : fs'[a].kind = "dir"]_vars

\* C5 witness: a download into a directory it had to create, of an object that
\* whose last upload replaced a different content.
C5_Witness ==
    /\ pc = "idle"
    /\ last.action = "download"
    /\ last.ok
    /\ last.local_path = NT
    /\ fs[N].kind = "dir"
    /\ last.object_name \in DOMAIN sent
    /\ sent[last.object_name].replaced
    /\ fs[NT] = File(sent[last.object_name].data)

\* The step is upload_file called on a path that does not exist: by
\* upload_directory, or by main() for upload-file.
DirUploadOfMissing ==
    /\ pc = "dir_upload"
    /\ pc' # "dir_upload"
    /\ ~Exists(fs, file_path)
FileUploadOfMissing ==
    /\ pc = "main"
    /\ last'.action = "upload-file"
    /\ last'.dispatched
    /\ ~Exists(fs, last'.local_path)

\* C6 as stated: an upload of a nonexistent path returns False and leaves the
\* statistics as they were.
C6_MissingUploadLeavesStatistics ==
    [][/\ DirUploadOfMissing =>
            (pc' = "dir_isfile" /\ last'.raised = NoException /\ stats' = stats)
       /\ FileUploadOfMissing =>
            (~last'.ok /\ last'.raised = NoException /\ stats' = stats)]_vars

\* C6 amended: an upload of a nonexistent path returns False without a put;
\* through upload-file no statistics change, and as a step of upload-dir
\* failed_count goes up by one and the rest of the statistics stays.
C6_MissingUploadCountsAsFailed ==
    [][/\ DirUploadOfMissing =>
            /\ pc' = "dir_isfile"
            /\ last'.raised = NoException
            /\ stats' = [stats EXCEPT !.failed_count = @ + 1]
            /\ bucket' = bucket
            /\ last'.net = last.net
       /\ FileUploadOfMissing =>
            /\ ~last'.ok
            /\ last'.exit = 1
            /\ last'.raised = NoException
            /\ stats' = stats
            /\ bucket' = bucket
            /\ last'.net = last.net]_vars

\* C6 witness: upload_directory passed a file that was removed after it was
\* found to be a file, and counted one failure.
C6_Witness ==
    /\ pc = "dir_isfile"
    /\ hist.missing = 1
    /\ hist.env
    /\ ~Exists(fs, hist.attempts[Len(hist.attempts)])
    /\ stats.failed_count = 1
    /\ stats.success_count = 0

\* C7: no exception leaves upload_file, upload_directory, download_file or
\* list_objects.
C7_OperationsNeverRaise ==
    last.raisedIn \notin {"upload_file", "upload_directory", "download_file",
                          "list_objects"}

\* C8: namespace and bucket name are the flag if given, else the environment
\* variable; a process that has neither has ended with exit code 1 without
\* constructing the client, calling the service or reaching its action.
C8_CredentialsResolvedAtStartup ==
    (runs > 0 /\ last.action = "none") =>
        LET ns == IF startup.nsFlag \notin {None, EmptyStr}
                  THEN startup.nsFlag ELSE startup.nsEnv
            bn == IF startup.bFlag \notin {None, EmptyStr}
                  THEN startup.bFlag ELSE startup.bEnv
            missing == ns \in {None, EmptyStr} \/ bn \in {None, EmptyStr}
        IN /\ missing => /\ pc = "idle"
                         /\ last.exit = 1
                         /\ last.net = {}
                         /\ ~last.constructed
           /\ ~missing => /\ startup.namespace = ns
                          /\ startup.bucket_name = bn
           /\ pc = "main" => (last.constructed /\ ~missing)

\* C8 witness: the namespace came from the environment because the flag was
\* empty, the bucket name was given nowhere, and the process ended.
C8_Witness ==
    /\ runs > 0
    /\ last.action = "none"
    /\ pc = "idle"
    /\ startup.nsFlag = EmptyStr
    /\ startup.nsEnv = <<"y">>
    /\ startup.namespace = <<"y">>
    /\ startup.bFlag = None
    /\ startup.bEnv = None
    /\ last.exit = 1

\* C9: between two files of upload_directory and after it returned,
\* success_count is the number of entries of files, total_size the sum of
\* their sizes, and files lists the uploaded files in upload order.
C9_StatisticsConsistent ==
    (stats.present /\ (pc = "dir_isfile" \/ DirReturned)) =>
        /\ stats.success_count = Len(stats.files)
        /\ stats.total_size = SumSizes(stats.files)
        /\ [i \in 1..Len(stats.files) |-> stats.files[i].local_path]
              = hist.uploaded

\* C10: two different files uploaded by one upload_directory call have
\* different object names.
C10_ObjectNamesInjective ==
    stats.present =>
        \A i, j \in 1..Len(stats.files) :
            stats.files[i].local_path # stats.files[j].local_path
                => stats.files[i].object_name # stats.files[j].object_name

=============================================================================
